---- MODULE Spec2Model ----
(***************************************************************************)
(* Trinomial lattice pricer (pricing_library): Market, Option,             *)
(* PricerParameters, Node / TruncNode and Tree.                            *)
(*                                                                         *)
(* Numbers.  The program computes in IEEE double precision (numpy          *)
(* float64).  The model computes in decimal fixed point: a finite number x *)
(* is the integer round(x * SCALE).  The non-finite doubles the program    *)
(* can produce (nan, +inf, -inf) and Python's None are reserved codes      *)
(* outside the finite range.  Arithmetic rounds to nearest, as the         *)
(* doubles do; division by zero gives nan or an infinity and raises        *)
(* nothing, as numpy scalars do.                                           *)
(*                                                                         *)
(* Dates.  A datetime is an integer number of ticks since the pricing      *)
(* date's midnight; a timedelta is a number of ticks, rounded to the       *)
(* nearest tick where Python rounds to the nearest microsecond.            *)
(***************************************************************************)
EXTENDS Integers, Sequences, FiniteSets, TLC

\* ------------------------------------------------------------------ numbers

\* Fixed-point resolution: Limb * Limb units per 1.0.
Limb == 1000
SCALE == Limb * Limb

\* Reserved codes: Python None, and the non-finite float64 values.
NoneV == -2147483647
NaN == 2147483647
PInf == 2147483646
NInf == -2147483646

IsNaN(a) == a = NaN
IsInf(a) == a = PInf \/ a = NInf
IsFinite(a) == a # NaN /\ a # PInf /\ a # NInf /\ a # NoneV

Abs(a) == IF a < 0 THEN -a ELSE a
Sgn(a) == IF a < 0 THEN -1 ELSE IF a > 0 THEN 1 ELSE 0

\* sign of a float64, infinities included (nan excluded by the callers)
FSgn(a) == IF a = PInf THEN 1 ELSE IF a = NInf THEN -1 ELSE Sgn(a)

\* |a| * |b| / SCALE rounded to nearest, by limbs so that no intermediate
\* product leaves the 32-bit range.
MulAbs(a, b) ==
    LET a0 == a % Limb
        a1 == (a \div Limb) % Limb
        a2 == a \div SCALE
        b0 == b % Limb
        b1 == (b \div Limb) % Limb
        b2 == b \div SCALE
        low == (a1 * b0 + a0 * b1) * Limb + a0 * b0
    IN  a2 * b2 * SCALE + (a2 * b1 + a1 * b2) * Limb
        + (a2 * b0 + a1 * b1 + a0 * b2) + ((low + SCALE \div 2) \div SCALE)

\* the next decimal digit of r / b for 0 <= r < b: the largest d with
\* d * b <= 10 * r, found without forming 10 * r
DivDigit(r, b) ==
    Cardinality({d \in 1 .. 9 : r >= d * (b \div 10) + ((d * (b % 10) + 9) \div 10)})

\* 10 * r - d * b, the remainder left after the digit d
DivRest(r, b, d) == 10 * (r - d * (b \div 10)) - d * (b % 10)

\* the fractional digits of r / b, most significant first, in base 10
RECURSIVE DivDigits(_, _, _, _)
DivDigits(r, b, k, acc) ==
    IF k = 0 THEN (IF r >= b - r THEN acc + 1 ELSE acc)
    ELSE DivDigits(DivRest(r, b, DivDigit(r, b)), b, k - 1, acc * 10 + DivDigit(r, b))

\* |a| / |b| * SCALE rounded to nearest, b > 0, by long division
DivAbs(a, b) == (a \div b) * SCALE + DivDigits(a % b, b, 6, 0)

\* float64 multiplication
FMul(a, b) ==
    IF IsNaN(a) \/ IsNaN(b) THEN NaN
    ELSE IF IsInf(a) \/ IsInf(b)
         THEN (IF a = 0 \/ b = 0 THEN NaN
               ELSE IF FSgn(a) * FSgn(b) > 0 THEN PInf ELSE NInf)
    ELSE Sgn(a) * Sgn(b) * MulAbs(Abs(a), Abs(b))

\* float64 division: x / 0 is an infinity, 0 / 0 is nan, nothing is raised
FDiv(a, b) ==
    IF IsNaN(a) \/ IsNaN(b) THEN NaN
    ELSE IF IsInf(a) THEN (IF IsInf(b) THEN NaN
                           ELSE IF FSgn(a) * (IF b < 0 THEN -1 ELSE 1) > 0
                                THEN PInf ELSE NInf)
    ELSE IF IsInf(b) THEN 0
    ELSE IF b = 0 THEN (IF a = 0 THEN NaN ELSE IF a > 0 THEN PInf ELSE NInf)
    ELSE Sgn(a) * Sgn(b) * DivAbs(Abs(a), Abs(b))

\* float64 addition and subtraction
FAdd(a, b) ==
    IF IsNaN(a) \/ IsNaN(b) THEN NaN
    ELSE IF IsInf(a) THEN (IF IsInf(b) /\ a # b THEN NaN ELSE a)
    ELSE IF IsInf(b) THEN b
    ELSE a + b

FNeg(a) ==
    IF IsNaN(a) THEN NaN ELSE IF a = PInf THEN NInf ELSE IF a = NInf THEN PInf
    ELSE -a

FSub(a, b) == FAdd(a, FNeg(b))

FAbs(a) == IF IsNaN(a) THEN NaN ELSE IF IsInf(a) THEN PInf ELSE Abs(a)

\* float64 comparisons: every comparison with nan is false
FLt(a, b) == ~IsNaN(a) /\ ~IsNaN(b) /\ a < b
FLe(a, b) == ~IsNaN(a) /\ ~IsNaN(b) /\ a <= b
FGt(a, b) == FLt(b, a)
FGe(a, b) == FLe(b, a)

\* Python's max(a, b): b if b > a else a
PyMax(a, b) == IF FGt(b, a) THEN b ELSE a

\* a finite int as a fixed-point number
Fix(n) == n * SCALE

\* exp(x) by its Taylor series, summed until the terms vanish; x >= 0
RECURSIVE ExpSeries(_, _, _, _)
ExpSeries(x, term, k, acc) ==
    IF term = 0 \/ k > 60 THEN acc
    ELSE ExpSeries(x, (MulAbs(term, x) + k \div 2) \div k, k + 1, acc + term)

\* np.exp
Exp(x) ==
    IF IsNaN(x) THEN NaN
    ELSE IF x = PInf THEN PInf
    ELSE IF x = NInf THEN 0
    ELSE IF x >= 0 THEN ExpSeries(x, SCALE, 1, 0)
    ELSE DivAbs(SCALE, ExpSeries(-x, SCALE, 1, 0))

\* Newton's iteration for the square root of x > 0
RECURSIVE SqrtIter(_, _, _)
SqrtIter(x, r, k) ==
    LET n == (r + DivAbs(x, r)) \div 2
    IN  IF k = 0 \/ n = r THEN r ELSE SqrtIter(x, n, k - 1)

\* np.sqrt
Sqrt(x) ==
    IF IsNaN(x) \/ x = NInf THEN NaN
    ELSE IF x = PInf THEN PInf
    ELSE IF x < 0 THEN NaN
    ELSE IF x = 0 THEN 0
    ELSE SqrtIter(x, IF x > SCALE THEN x ELSE SCALE, 40)

\* a / b rounded to the nearest integer, ties to even, for a >= 0 and b > 0
\* (the rounding of timedelta arithmetic)
RoundDiv(a, b) ==
    LET q == a \div b
        r == a % b
    IN  IF 2 * r > b \/ (2 * r = b /\ q % 2 = 1) THEN q + 1 ELSE q

\* -------------------------------------------------------------------- dates

\* ticks per day (a tick stands for Python's microsecond)
TicksPerDay == 6000

\* dt.datetime(2099, 12, 31), seen from the pricing date
FarFuture == 27000 * TicksPerDay

\* timedelta.days: the whole days of a non-negative timedelta
Days(delta) == delta \div TicksPerDay

\* ------------------------------------------------------------------- inputs

MaxSteps == 3
MaxCalls == 2

\* interpreter stack left, in frames, when a pricing method starts to price
StackBudgets == {2, MaxSteps + 2}

Spots == {Fix(5)}
Rates == {50000}
Vols == {0, 300000, 1750000}
Dividends == {0, 500000, Fix(8)}
ExDates == {NoneV, 100 * TicksPerDay, 200 * TicksPerDay}
Strikes == {Fix(5)}
Maturities == {TicksPerDay \div 2, 365 * TicksPerDay}
PMins == {NoneV, 50000, SCALE}

\* the argument tuples of the callers that pass accepted values
GridArgs ==
    { a \in [s0 : Spots, rate : Rates, vol : Vols, dividend_amount : Dividends,
             ex_div_date : ExDates, K : Strikes, maturity : Maturities,
             call_put : {"call", "put"}, eur_am : {"european", "american"},
             nb_steps : 1 .. MaxSteps, pruning : BOOLEAN, p_min : PMins] :
        /\ (a.dividend_amount = 0) = (a.ex_div_date = NoneV)
        /\ a.dividend_amount = Fix(8) => a.ex_div_date = 100 * TicksPerDay
        /\ a.vol = 1750000 => a.nb_steps = 1 /\ a.dividend_amount = 0
        /\ a.maturity < TicksPerDay => a.dividend_amount = 0 /\ a.vol = 300000
        /\ ~a.pruning => a.p_min = 50000 }

\* one plain contract, and the callers that pass it with a spot or a
\* volatility at or below zero, or with an unknown type or exercise style
BaseArgs ==
    [s0 |-> Fix(5), rate |-> 50000, vol |-> 300000, dividend_amount |-> 0,
     ex_div_date |-> NoneV, K |-> Fix(5), maturity |-> 365 * TicksPerDay,
     call_put |-> "call", eur_am |-> "european", nb_steps |-> 1,
     pruning |-> FALSE, p_min |-> 50000]

EdgeArgs ==
    { [BaseArgs EXCEPT !.s0 = s, !.vol = v, !.call_put = c, !.eur_am = e] :
        s \in {-Fix(5), 0, Fix(5)}, v \in {-300000, 0, 300000},
        c \in {"call", "put", "straddle"}, e \in {"european", "american", "bermudan"} }

\* the callers that pass a dividend amount of 0 with an ex-dividend date, or
\* an amount with no date
SentinelArgs ==
    { [BaseArgs EXCEPT !.dividend_amount = d[1], !.ex_div_date = d[2], !.nb_steps = n] :
        d \in {<<0, 100 * TicksPerDay>>, <<500000, NoneV>>}, n \in 1 .. MaxSteps }

\* the callers that prune with a floor above the probability of the trunk's
\* neighbours, over up to two more steps than the others, with and without a
\* dividend
PruneFloors == {350000, 600000}

PruneArgs ==
    { [BaseArgs EXCEPT !.pruning = TRUE, !.p_min = f, !.nb_steps = n,
                       !.dividend_amount = d[1], !.ex_div_date = d[2]] :
        f \in PruneFloors, n \in 1 .. MaxSteps + 2,
        d \in {<<0, NoneV>>, <<500000, 100 * TicksPerDay>>} }

\* the callers whose ex-dividend date is a moment after the pricing date, on
\* the boundary between two columns, or the maturity itself
ExDateArgs ==
    { [BaseArgs EXCEPT !.dividend_amount = 500000, !.ex_div_date = x, !.nb_steps = n] :
        x \in {1, (365 * TicksPerDay) \div 3, (365 * TicksPerDay) \div 2, 365 * TicksPerDay},
        n \in 1 .. MaxSteps }

\* the callers whose dividend is large enough to carry a pruned node's forward
\* out of the band of the node its neighbour points at
LargeDividendArgs ==
    { [BaseArgs EXCEPT !.pruning = TRUE, !.p_min = 350000, !.nb_steps = n,
                       !.dividend_amount = d, !.ex_div_date = 200 * TicksPerDay] :
        n \in 2 .. MaxSteps, d \in {1500000, 2500000} }

\* the callers whose maturity is a year and half a day after the pricing date
HalfDayArgs ==
    { [BaseArgs EXCEPT !.maturity = 365 * TicksPerDay + TicksPerDay \div 2,
                       !.nb_steps = n, !.eur_am = e] :
        n \in 1 .. MaxSteps, e \in {"european", "american"} }

\* the argument tuples the callers pass
Args ==
    GridArgs \cup EdgeArgs \cup SentinelArgs \cup PruneArgs \cup ExDateArgs
        \cup LargeDividendArgs \cup HalfDayArgs

VARIABLES args, market, option, params, tree, nodes, pc, frame, result, calls

vars == <<args, market, option, params, tree, nodes, pc, frame, result, calls>>

\* ----------------------------------------------------------------- lattice

\* Node.__init__ / TruncNode.__init__; 0 is the None link
NewNode(und_price, date, trunc, prec_node) ==
    [und_price |-> und_price, date |-> date, opt_price |-> NoneV,
     p_up |-> 0, p_mid |-> 0, p_down |-> 0, p_node |-> 0,
     next_up |-> 0, next_mid |-> 0, next_down |-> 0,
     up_node |-> 0, down_node |-> 0, is_exerced |-> FALSE,
     trunc |-> trunc, prec_node |-> prec_node]

\* dt.timedelta(days=self.tree.delta_t * 365): delta_t * 365 is days / nb_steps
\* to within one unit in the last place of a double, far below a tick
TimeStep ==
    RoundDiv(Days(option.maturity - params.pricing_date) * TicksPerDay, params.nb_steps)

\* Node.dividend_period
DividendPeriod(n) ==
    LET ex_date == market.ex_div_date
        next_date == n.date + TimeStep
        one_day == TicksPerDay
        nb == IF params.nb_steps > 1 THEN params.nb_steps ELSE 1
        tol == RoundDiv(RoundDiv(one_day, nb), 1000)
        after_start == n.date < ex_date /\ ~(Abs(n.date - ex_date) < tol)
        before_or_equal_next == ex_date < next_date \/ Abs(ex_date - next_date) < tol
    IN  after_start /\ before_or_equal_next

\* Node.forward_variance
ForwardVariance(n) ==
    LET pure_forward == FMul(n.und_price, Exp(FMul(market.rate, tree.delta_t)))
        expected_value == IF DividendPeriod(n) THEN FSub(pure_forward, market.dividend)
                          ELSE pure_forward
        variance == FMul(FMul(FMul(n.und_price, n.und_price),
                              Exp(FMul(FMul(Fix(2), market.rate), tree.delta_t))),
                         FSub(Exp(FMul(FMul(market.vol, market.vol), tree.delta_t)), SCALE))
    IN  [expected_value |-> expected_value, variance |-> variance]

\* Node.calc_up_node
CalcUpNode(ns, i) ==
    IF ns[i].up_node # 0 THEN [nodes |-> ns, ret |-> ns[i].up_node]
    ELSE LET j == Len(ns) + 1
             up == [NewNode(FMul(ns[i].und_price, tree.alpha), ns[i].date, FALSE, 0)
                      EXCEPT !.down_node = i]
         IN  [nodes |-> Append([ns EXCEPT ![i].up_node = j], up), ret |-> j]

\* Node.calc_down_node
CalcDownNode(ns, i) ==
    IF ns[i].down_node # 0 THEN [nodes |-> ns, ret |-> ns[i].down_node]
    ELSE LET j == Len(ns) + 1
             down == [NewNode(FDiv(ns[i].und_price, tree.alpha), ns[i].date, FALSE, 0)
                        EXCEPT !.up_node = i]
         IN  [nodes |-> Append([ns EXCEPT ![i].down_node = j], down), ret |-> j]

\* the upper and lower edges of a candidate's price band in find_next_mid
UpperEdge(price) == FDiv(FAdd(price, FMul(price, tree.alpha)), Fix(2))
LowerEdge(price) == FDiv(FAdd(price, FDiv(price, tree.alpha)), Fix(2))

\* moves a find_next_mid loop may make in the model before it is cut
MaxWalk == 8

\* Node.find_next_mid, first loop.  The walk is cut as "hang" when a freshly
\* created neighbour's band edge is not above the candidate's: every later
\* neighbour is then fresh too, no edge ever passes the forward, and the
\* loop of the program never ends.
RECURSIVE FindUp(_, _, _, _)
FindUp(ns, c, forward, fuel) ==
    LET r == CalcUpNode(ns, c)
    IN  IF ~FGe(forward, UpperEdge(ns[c].und_price))
        THEN [nodes |-> ns, ret |-> c, status |-> "ok"]
        ELSE IF fuel = 0 THEN [nodes |-> ns, ret |-> c, status |-> "bound"]
        ELSE IF ns[c].up_node = 0
                /\ ~FGt(UpperEdge(r.nodes[r.ret].und_price), UpperEdge(ns[c].und_price))
        THEN [nodes |-> r.nodes, ret |-> r.ret, status |-> "hang"]
        ELSE FindUp(r.nodes, r.ret, forward, fuel - 1)

\* Node.find_next_mid, second loop
RECURSIVE FindDown(_, _, _, _)
FindDown(ns, c, forward, fuel) ==
    LET r == CalcDownNode(ns, c)
    IN  IF ~FLe(forward, LowerEdge(ns[c].und_price))
        THEN [nodes |-> ns, ret |-> c, status |-> "ok"]
        ELSE IF fuel = 0 THEN [nodes |-> ns, ret |-> c, status |-> "bound"]
        ELSE IF ns[c].down_node = 0
                /\ ~FLt(LowerEdge(r.nodes[r.ret].und_price), LowerEdge(ns[c].und_price))
        THEN [nodes |-> r.nodes, ret |-> r.ret, status |-> "hang"]
        ELSE FindDown(r.nodes, r.ret, forward, fuel - 1)

\* Node.find_next_mid, the assignment of the candidate found
FindNextMidAssign(d, i) ==
    IF d.status # "ok" THEN d
    ELSE [nodes |-> [d.nodes EXCEPT ![i].next_mid = d.ret], ret |-> d.ret, status |-> "ok"]

\* Node.find_next_mid from its second loop on
FindNextMidDown(u, i, forward) ==
    IF u.status # "ok" THEN u
    ELSE FindNextMidAssign(FindDown(u.nodes, u.ret, forward, MaxWalk), i)

\* Node.find_next_mid from its first loop on
FindNextMidUp(ns, i, nCandidate, forward) ==
    FindNextMidDown(FindUp(ns, nCandidate, forward, MaxWalk), i, forward)

\* a find_next_mid that takes the candidate as it is handed over, without
\* walking to the node whose band holds the forward
FindNextMidKeep(ns, i, nCandidate) ==
    FindNextMidAssign([nodes |-> ns, ret |-> nCandidate, status |-> "ok"], i)

\* Node.find_next_mid
FindNextMid(ns, i, nCandidate) ==
    FindNextMidUp(ns, i, nCandidate, ForwardVariance(ns[i]).expected_value)

\* Node.calc_next_mid, the node it creates
CalcNextMidNode(n, i, next_value) ==
    IF n.trunc THEN NewNode(next_value, n.date + TimeStep, TRUE, i)
    ELSE NewNode(next_value, n.date + TimeStep, FALSE, 0)

\* Node.calc_next_mid, what follows the creation of the node
CalcNextMidRefine(ns, ns1, i, nCandidate) ==
    IF DividendPeriod(ns[i])
    THEN FindNextMid(ns1, i, IF nCandidate = 0 THEN Len(ns1) ELSE nCandidate)
    ELSE [nodes |-> ns1, ret |-> Len(ns1), status |-> "ok"]

\* Node.calc_next_mid; nCandidate = 0 is None
CalcNextMid(ns, i, nCandidate) ==
    IF ns[i].next_mid = 0 \/ DividendPeriod(ns[i])
    THEN CalcNextMidRefine(ns,
                           Append([ns EXCEPT ![i].next_mid = Len(ns) + 1],
                                  CalcNextMidNode(ns[i], i, ForwardVariance(ns[i]).expected_value)),
                           i, nCandidate)
    ELSE [nodes |-> ns, ret |-> ns[i].next_mid, status |-> "ok"]

\* CLOSE_EPS = 1e-12 and PROB_TOL = 1e-10 on the grid of the model: they are
\* below its resolution, so |d| < CLOSE_EPS is d = 0 and |d| > PROB_TOL is
\* d # 0; both are read with strict comparisons only
CLOSE_EPS == 1
PROB_TOL == 0

\* Node.probas, p_mid and the triple once p_up and p_down are known
ProbaMid(p_up, p_down) ==
    [p_up |-> p_up, p_mid |-> FSub(FSub(SCALE, p_up), p_down), p_down |-> p_down]

\* Node.probas, p_up of the first closed form
SimpleUp(p_down) == ProbaMid(FDiv(p_down, tree.alpha), p_down)

\* Node.probas, the first closed form (no dividend in the step, or forward
\* at the middle price)
SimpleTriple ==
    SimpleUp(FDiv(FSub(Exp(FMul(FMul(market.vol, market.vol), tree.delta_t)), SCALE),
                  FMul(FSub(SCALE, tree.alpha),
                       FSub(FDiv(SCALE, FMul(tree.alpha, tree.alpha)), SCALE))))

\* Node.probas, p_up of the second closed form
GeneralUp(expected_term, p_down) ==
    ProbaMid(FDiv(FSub(expected_term, FMul(FSub(FDiv(SCALE, tree.alpha), SCALE), p_down)),
                  FSub(tree.alpha, SCALE)),
             p_down)

\* Node.probas, p_down of the second closed form
GeneralDown(variance_term, expected_term, denominator) ==
    GeneralUp(expected_term,
              FDiv(FSub(variance_term, FMul(FAdd(tree.alpha, SCALE), expected_term)),
                   denominator))

\* Node.probas, the second closed form (dividend in the step)
GeneralTriple(expected_value, variance, sm) ==
    GeneralDown(FDiv(FAdd(variance, FMul(FAdd(expected_value, sm), FSub(expected_value, sm))),
                     FMul(sm, sm)),
                FDiv(FSub(expected_value, sm), sm),
                FMul(FSub(SCALE, tree.alpha),
                     FSub(FDiv(SCALE, FMul(tree.alpha, tree.alpha)), SCALE)))

\* Node.probas, the choice between the two closed forms
ProbaChoose(n, fv, sm) ==
    IF ~DividendPeriod(n) \/ FLt(FAbs(FSub(fv.expected_value, sm)), CLOSE_EPS)
    THEN SimpleTriple
    ELSE GeneralTriple(fv.expected_value, fv.variance, sm)

\* Node.probas, the try block.  Every operand is a numpy scalar, whose
\* arithmetic raises nothing: the except branch is never taken.
ProbaTriple(n, sm) == ProbaChoose(n, ForwardVariance(n), sm)

\* Node.probas, one bound test of the validation
ProbaOut(p) == FLt(p, -PROB_TOL) \/ FGt(p, SCALE + PROB_TOL)

\* Node.probas, the validation of the triple: TRUE when an AssertionError is raised
ProbaRejected(t) ==
    \/ FGt(FAbs(FSub(FAdd(FAdd(t.p_up, t.p_mid), t.p_down), SCALE)), PROB_TOL)
    \/ ProbaOut(t.p_up) \/ ProbaOut(t.p_mid) \/ ProbaOut(t.p_down)

\* Node.probas, validation and assignment of the triple
ProbaStore(ns, i, t) ==
    IF ProbaRejected(t) THEN [nodes |-> ns, status |-> "AssertionError"]
    ELSE [nodes |-> [ns EXCEPT ![i].p_up = t.p_up, ![i].p_mid = t.p_mid,
                               ![i].p_down = t.p_down],
          status |-> "ok"]

\* Node.probas once next_mid is known
ProbaSolve(m, i) ==
    IF m.status # "ok" THEN [nodes |-> m.nodes, status |-> m.status]
    ELSE ProbaStore(m.nodes, i,
                    ProbaTriple(m.nodes[i], m.nodes[m.nodes[i].next_mid].und_price))

\* a probas() without its pruning shortcut (what C3 is compared against)
ProbasUnpruned(ns, i) ==
    ProbaSolve(IF ns[i].next_mid = 0 THEN CalcNextMid(ns, i, 0)
               ELSE [nodes |-> ns, ret |-> ns[i].next_mid, status |-> "ok"], i)

\* Node.probas
Probas(ns, i) ==
    IF params.pruning /\ FLt(ns[i].p_node, params.p_min)
    THEN [nodes |-> [ns EXCEPT ![i].p_up = 0, ![i].p_mid = SCALE, ![i].p_down = 0],
          status |-> "ok"]
    ELSE ProbaSolve(IF ns[i].next_mid = 0 THEN CalcNextMid(ns, i, 0)
                    ELSE [nodes |-> ns, ret |-> ns[i].next_mid, status |-> "ok"], i)

\* Node.next_nodes_probas, one of its three statements
AddProba(ns, i, j, p) ==
    IF j = 0 THEN ns
    ELSE [ns EXCEPT ![j].p_node = FAdd(ns[j].p_node, FMul(ns[i].p_node, p))]

\* Node.next_nodes_probas
NextNodesProbas(ns, i) ==
    AddProba(AddProba(AddProba(ns, i, ns[i].next_up, ns[i].p_up),
                      i, ns[i].next_mid, ns[i].p_mid),
             i, ns[i].next_down, ns[i].p_down)

\* the pruning test of build_triplet and build_column
Expand(p_node) == ~params.pruning \/ FGt(p_node, params.p_min)

\* Tree.build_triplet, its last statement
BuildTripletPropagate(p, i) ==
    IF p.status # "ok" THEN p
    ELSE [nodes |-> NextNodesProbas(p.nodes, i), status |-> "ok"]

\* Tree.build_triplet, the assignment of next_down
BuildTripletDown(d, i) == [d.nodes EXCEPT ![i].next_down = d.ret]

\* Tree.build_triplet, the assignment of next_up and the creation of the down node
BuildTripletUp(u, i) ==
    BuildTripletDown(CalcDownNode([u.nodes EXCEPT ![i].next_up = u.ret],
                                  u.nodes[i].next_mid), i)

\* Tree.build_triplet, the pruning test and its body
BuildTripletNeighbours(ns, i) ==
    IF Expand(ns[i].p_node) THEN BuildTripletUp(CalcUpNode(ns, ns[i].next_mid), i) ELSE ns

\* Tree.build_triplet once the middle successor is known
BuildTripletMiddle(m, i) ==
    IF m.status # "ok" THEN [nodes |-> m.nodes, status |-> m.status]
    ELSE BuildTripletPropagate(
             Probas(BuildTripletNeighbours([m.nodes EXCEPT ![i].next_mid = m.ret], i), i), i)

\* Tree.build_triplet
BuildTriplet(ns, i, nCandidate) == BuildTripletMiddle(CalcNextMid(ns, i, nCandidate), i)

\* iterations a same-column walk may make in the model
MaxColumn == 2 * MaxSteps + 4

\* Tree.build_column, the links between the new middle successors of a
\* pruned node (dir "up": the node above the trunk side; "down": below)
Relink(ns, p, dir) ==
    IF dir = "up"
    THEN [ns EXCEPT ![ns[p].next_mid].down_node = ns[ns[p].down_node].next_mid,
                    ![ns[ns[p].down_node].next_mid].up_node = ns[p].next_mid]
    ELSE [ns EXCEPT ![ns[p].next_mid].up_node = ns[ns[p].up_node].next_mid,
                    ![ns[ns[p].up_node].next_mid].down_node = ns[p].next_mid]

\* Tree.build_column, one iteration of a loop: the node `p` next to
\* parent_node and its neighbour `q` on the trunk side
RECURSIVE BuildWalk(_, _, _, _)
BuildWalkAfter(b, p, dir, relink, fuel) ==
    IF b.status # "ok" THEN b
    ELSE BuildWalk(IF relink THEN Relink(b.nodes, p, dir) ELSE b.nodes, p, dir, fuel - 1)

BuildWalkBody(ns, p, q, cand, dir, fuel) ==
    BuildWalkAfter(BuildTriplet(IF Expand(ns[q].p_node) THEN [ns EXCEPT ![p].next_mid = cand]
                                ELSE ns, p, cand),
                   p, dir, ~Expand(ns[q].p_node), fuel)

BuildWalkNext(ns, p, q, dir, fuel) ==
    BuildWalkBody(ns, p, q, IF dir = "up" THEN ns[q].next_up ELSE ns[q].next_down, dir, fuel)

\* Tree.build_column, the upward (dir "up") and the downward loop
BuildWalk(ns, parent_node, dir, fuel) ==
    LET p == IF dir = "up" THEN ns[parent_node].up_node ELSE ns[parent_node].down_node
    IN  IF p = 0 THEN [nodes |-> ns, status |-> "ok"]
        ELSE IF fuel = 0 THEN [nodes |-> ns, status |-> "bound"]
        ELSE BuildWalkNext(ns, p, IF dir = "up" THEN ns[p].down_node ELSE ns[p].up_node,
                           dir, fuel)

\* Tree.build_column, its return
BuildColumnReturn(d, current_trunc_node) ==
    IF d.status # "ok" THEN [nodes |-> d.nodes, ret |-> 0, status |-> d.status]
    ELSE [nodes |-> d.nodes, ret |-> d.nodes[current_trunc_node].next_mid, status |-> "ok"]

\* Tree.build_column from its downward loop on
BuildColumnDown(u, current_trunc_node) ==
    IF u.status # "ok" THEN BuildColumnReturn(u, current_trunc_node)
    ELSE BuildColumnReturn(BuildWalk(u.nodes, current_trunc_node, "down", MaxColumn),
                           current_trunc_node)

\* Tree.build_column from its upward loop on
BuildColumnUp(t, current_trunc_node) ==
    IF t.status # "ok" THEN BuildColumnReturn(t, current_trunc_node)
    ELSE BuildColumnDown(BuildWalk(t.nodes, current_trunc_node, "up", MaxColumn),
                         current_trunc_node)

\* Tree.build_column
BuildColumn(ns, current_trunc_node) ==
    BuildColumnUp(BuildTriplet(ns, current_trunc_node, 0), current_trunc_node)

\* ----------------------------------------------------------------- pricing

\* a payoff without its floor at zero (what C13 is compared against)
PayoffUnfloored(opt, und_price) ==
    IF opt.call_put = "call" THEN FSub(und_price, opt.K) ELSE FSub(opt.K, und_price)

\* Option.payoff
Payoff(opt, und_price) ==
    IF opt.call_put = "call" THEN PyMax(FSub(und_price, opt.K), 0)
    ELSE PyMax(FSub(opt.K, und_price), 0)

\* Option.is_american
IsAmerican(opt) == opt.eur_am = "american"

\* Node.price, the terminal branch
PriceTerminal(ns, i, v) ==
    [nodes |-> [ns EXCEPT ![i].opt_price = v], val |-> v, status |-> "ok"]

\* Node.price, the early-exercise test and the caching of the value
PriceCache(ns, i, opt, price, exercise) ==
    IF IsAmerican(opt) /\ FGt(exercise, price)
    THEN [nodes |-> [ns EXCEPT ![i].opt_price = exercise, ![i].is_exerced = TRUE],
          val |-> exercise, status |-> "ok"]
    ELSE [nodes |-> [ns EXCEPT ![i].opt_price = price], val |-> price, status |-> "ok"]

\* Node.price, the discounted expectation
PriceMid(n, i, opt, price_up, price_down, m) ==
    IF m.status # "ok" THEN m
    ELSE PriceCache(m.nodes, i, opt,
                    FMul(FAdd(FAdd(FMul(price_up, n.p_up), FMul(m.val, n.p_mid)),
                              FMul(price_down, n.p_down)), tree.df),
                    Payoff(opt, n.und_price))

\* Node.price with `depth` frames of stack left: a call that finds none left
\* raises RecursionError, which unwinds through the callers.  opt is
\* self.tree.option_data.
RECURSIVE Price(_, _, _, _)
PriceDown(n, i, opt, price_up, d, depth) ==
    IF d.status # "ok" THEN d
    ELSE PriceMid(n, i, opt, price_up, d.val, Price(d.nodes, n.next_mid, depth - 1, opt))

PriceUp(n, i, opt, u, depth) ==
    IF u.status # "ok" THEN u
    ELSE PriceDown(n, i, opt, u.val,
                   IF n.next_down # 0 THEN Price(u.nodes, n.next_down, depth - 1, opt)
                   ELSE [nodes |-> u.nodes, val |-> 0, status |-> "ok"],
                   depth)

\* a price() that does not look at the cached value and computes the node
\* again on every call
PriceRecompute(ns, i, depth, opt) ==
    IF depth = 0 THEN [nodes |-> ns, val |-> NoneV, status |-> "RecursionError"]
    ELSE IF ns[i].next_mid = 0 THEN PriceTerminal(ns, i, Payoff(opt, ns[i].und_price))
    ELSE PriceUp(ns[i], i, opt,
                 IF ns[i].next_up # 0 THEN Price(ns, ns[i].next_up, depth - 1, opt)
                 ELSE [nodes |-> ns, val |-> 0, status |-> "ok"],
                 depth)

Price(ns, i, depth, opt) ==
    IF depth = 0 THEN [nodes |-> ns, val |-> NoneV, status |-> "RecursionError"]
    ELSE IF ns[i].opt_price # NoneV
    THEN [nodes |-> ns, val |-> ns[i].opt_price, status |-> "ok"]
    ELSE IF ns[i].next_mid = 0 THEN PriceTerminal(ns, i, Payoff(opt, ns[i].und_price))
    ELSE PriceUp(ns[i], i, opt,
                 IF ns[i].next_up # 0 THEN Price(ns, ns[i].next_up, depth - 1, opt)
                 ELSE [nodes |-> ns, val |-> 0, status |-> "ok"],
                 depth)

\* Tree.backward_pricing, the two inner loops: price() on every node above
\* (dir = "up") or below (dir = "down") the trunk
RECURSIVE PriceWalk(_, _, _, _, _)
PriceWalkStep(next, r, dir, depth, fuel) ==
    IF r.status # "ok" THEN [nodes |-> r.nodes, status |-> r.status]
    ELSE PriceWalk(r.nodes, next, dir, depth, fuel - 1)

PriceWalk(ns, current_node, dir, depth, fuel) ==
    LET next == IF dir = "up" THEN ns[current_node].up_node ELSE ns[current_node].down_node
    IN  IF next = 0 THEN [nodes |-> ns, status |-> "ok"]
        ELSE IF fuel = 0 THEN [nodes |-> ns, status |-> "bound"]
        ELSE PriceWalkStep(next, Price(ns, next, depth, option), dir, depth, fuel)

\* Tree.backward_pricing, one iteration of the outer loop from its inner loops on
PriceColumnDown(u, current_trunc_node, depth) ==
    IF u.status # "ok" THEN u
    ELSE PriceWalk(u.nodes, current_trunc_node, "down", depth, MaxColumn)

PriceColumnUp(t, current_trunc_node, depth) ==
    IF t.status # "ok" THEN [nodes |-> t.nodes, status |-> t.status]
    ELSE PriceColumnDown(PriceWalk(t.nodes, current_trunc_node, "up", depth, MaxColumn),
                         current_trunc_node, depth)

\* Tree.backward_pricing, one iteration of the outer loop but its last line
PriceColumn(ns, current_trunc_node, depth) ==
    PriceColumnUp(Price(ns, current_trunc_node, depth, option), current_trunc_node, depth)

\* ------------------------------------------------------------------ actions

Methods == {"make_tree", "recursive_pricing", "backward_pricing"}

NoMarket == [s0 |-> 0, rate |-> 0, vol |-> 0, dividend |-> 0, ex_div_date |-> 0]
NoOption == [K |-> 0, maturity |-> 0, call_put |-> "", eur_am |-> ""]
NoParams == [pricing_date |-> 0, nb_steps |-> 0, pruning |-> FALSE, p_min |-> NoneV]
NoTree == [delta_t |-> 0, df |-> 0, alpha |-> 0, root |-> 0, last |-> 0]
NoFrame == [method |-> "", i |-> 0, trunk |-> 0]

\* what a call gave its caller: kind "value" with the float returned, kind
\* "None", or the name of the exception that left the call
Outcome(method, kind, value) == [method |-> method, kind |-> kind, value |-> value]

Init ==
    /\ args \in Args
    /\ market = NoMarket
    /\ option = NoOption
    /\ params = NoParams
    /\ tree = NoTree
    /\ nodes = <<>>
    /\ pc = "Market"
    /\ frame = NoFrame
    /\ result = <<>>
    /\ calls = 0

\* a constructor that keeps the ex-dividend date it is given whatever the
\* amount (what C14 is compared against)
MarketInitKeepDate ==
    /\ pc = "Market"
    /\ IF args.s0 < 0 \/ args.vol < 0
       THEN /\ result' = Append(result, Outcome("Market", "ValueError", 0))
            /\ pc' = "failed"
            /\ UNCHANGED market
       ELSE /\ market' = [s0 |-> args.s0, rate |-> args.rate, vol |-> args.vol,
                          dividend |-> args.dividend_amount,
                          ex_div_date |-> IF args.ex_div_date # NoneV
                                          THEN args.ex_div_date ELSE FarFuture]
            /\ pc' = "Option"
            /\ UNCHANGED result
    /\ UNCHANGED <<args, option, params, tree, nodes, frame, calls>>

\* a constructor that refuses a zero spot or a zero volatility as well (what
\* C12 is compared against)
MarketInitStrict ==
    /\ pc = "Market"
    /\ IF args.s0 <= 0 \/ args.vol <= 0
       THEN /\ result' = Append(result, Outcome("Market", "ValueError", 0))
            /\ pc' = "failed"
            /\ UNCHANGED market
       ELSE /\ market' = [s0 |-> args.s0, rate |-> args.rate, vol |-> args.vol,
                          dividend |-> args.dividend_amount,
                          ex_div_date |-> IF args.dividend_amount # 0 /\ args.ex_div_date # NoneV
                                          THEN args.ex_div_date ELSE FarFuture]
            /\ pc' = "Option"
            /\ UNCHANGED result
    /\ UNCHANGED <<args, option, params, tree, nodes, frame, calls>>

\* Market.__init__
MarketInit ==
    /\ pc = "Market"
    /\ IF args.s0 < 0 \/ args.vol < 0
       THEN /\ result' = Append(result, Outcome("Market", "ValueError", 0))
            /\ pc' = "failed"
            /\ UNCHANGED market
       ELSE /\ market' = [s0 |-> args.s0, rate |-> args.rate, vol |-> args.vol,
                          dividend |-> args.dividend_amount,
                          ex_div_date |-> IF args.dividend_amount # 0 /\ args.ex_div_date # NoneV
                                          THEN args.ex_div_date ELSE FarFuture]
            /\ pc' = "Option"
            /\ UNCHANGED result
    /\ UNCHANGED <<args, option, params, tree, nodes, frame, calls>>

\* Option.__init__, then the PricerParameters dataclass
OptionInit ==
    /\ pc = "Option"
    /\ IF args.call_put \notin {"call", "put"} \/ args.eur_am \notin {"european", "american"}
       THEN /\ result' = Append(result, Outcome("Option", "TypeError", 0))
            /\ pc' = "failed"
            /\ UNCHANGED <<option, params>>
       ELSE /\ option' = [K |-> args.K, maturity |-> args.maturity,
                          call_put |-> args.call_put, eur_am |-> args.eur_am]
            /\ params' = [pricing_date |-> 0, nb_steps |-> args.nb_steps,
                          pruning |-> args.pruning, p_min |-> args.p_min]
            /\ pc' = "Tree"
            /\ UNCHANGED result
    /\ UNCHANGED <<args, market, tree, nodes, frame, calls>>

\* Tree.__init__, the fields it assigns
TreeFields(delta_t) ==
    [delta_t |-> delta_t,
     df |-> Exp(FMul(FNeg(market.rate), delta_t)),
     alpha |-> Exp(FMul(market.vol, Sqrt(FMul(Fix(3), delta_t)))),
     root |-> 0, last |-> 0]

\* a constructor that validates the pruning floor itself (what C7 is
\* compared against)
TreeInitFailFast ==
    /\ pc = "Tree"
    /\ IF params.pruning /\ params.p_min = NoneV
       THEN /\ result' = Append(result, Outcome("Tree", "ValueError", 0))
            /\ pc' = "failed"
            /\ UNCHANGED tree
       ELSE /\ tree' = TreeFields(RoundDiv(Days(option.maturity - params.pricing_date) * SCALE,
                                           params.nb_steps * 365))
            /\ pc' = "idle"
            /\ UNCHANGED result
    /\ UNCHANGED <<args, market, option, params, nodes, frame, calls>>

\* Tree.__init__
TreeInit ==
    /\ pc = "Tree"
    /\ tree' = TreeFields(RoundDiv(Days(option.maturity - params.pricing_date) * SCALE,
                                   params.nb_steps * 365))
    /\ pc' = "idle"
    /\ UNCHANGED <<args, market, option, params, nodes, frame, result, calls>>

\* the caller's return: the outcome is recorded and the tree is idle again
Return(method, kind, value) ==
    /\ result' = Append(result, Outcome(method, kind, value))
    /\ pc' = "idle"
    /\ frame' = NoFrame

\* TruncNode(self.market_data.s0, self, pricing_date, None) with p_node = 1.0
RootNode == [NewNode(market.s0, params.pricing_date, TRUE, 0) EXCEPT !.p_node = SCALE]

\* a make_tree that keeps the root of the previous call when there is one
\* (what C5 is compared against)
CallKeepingRoot(method) ==
    /\ pc = "idle"
    /\ calls < MaxCalls
    /\ calls' = calls + 1
    /\ IF params.pruning /\ params.p_min = NoneV
       THEN /\ Return(method, "ValueError", 0)
            /\ UNCHANGED <<tree, nodes>>
       ELSE /\ nodes' = IF tree.root = 0 THEN Append(nodes, RootNode) ELSE nodes
            /\ tree' = [tree EXCEPT !.root = IF tree.root = 0 THEN Len(nodes) + 1 ELSE @]
            /\ frame' = [method |-> method, i |-> 0,
                         trunk |-> IF tree.root = 0 THEN Len(nodes) + 1 ELSE tree.root]
            /\ pc' = "make_tree"
            /\ UNCHANGED result
    /\ UNCHANGED <<args, market, option, params>>

\* a make_tree that creates its root before it looks at p_min (what C8 is
\* compared against)
CallRootFirst(method) ==
    /\ pc = "idle"
    /\ calls < MaxCalls
    /\ calls' = calls + 1
    /\ nodes' = Append(nodes, RootNode)
    /\ tree' = [tree EXCEPT !.root = Len(nodes) + 1]
    /\ IF params.pruning /\ params.p_min = NoneV
       THEN Return(method, "ValueError", 0)
       ELSE /\ frame' = [method |-> method, i |-> 0, trunk |-> Len(nodes) + 1]
            /\ pc' = "make_tree"
            /\ UNCHANGED result
    /\ UNCHANGED <<args, market, option, params>>

\* A caller invokes make_tree, recursive_pricing or backward_pricing; the
\* first lines of make_tree: the p_min check and the new root.
Call(method) ==
    /\ pc = "idle"
    /\ calls < MaxCalls
    /\ calls' = calls + 1
    /\ IF params.pruning /\ params.p_min = NoneV
       THEN /\ Return(method, "ValueError", 0)
            /\ UNCHANGED <<tree, nodes>>
       ELSE /\ nodes' = Append(nodes, RootNode)
            /\ tree' = [tree EXCEPT !.root = Len(nodes) + 1]
            /\ frame' = [method |-> method, i |-> 0, trunk |-> Len(nodes) + 1]
            /\ pc' = "make_tree"
            /\ UNCHANGED result
    /\ UNCHANGED <<args, market, option, params>>

\* Tree.make_tree, one iteration of the loop over the steps
BuildColumnStep ==
    /\ pc = "make_tree"
    /\ frame.i < params.nb_steps
    /\ \E b \in {BuildColumn(nodes, frame.trunk)} :
           /\ nodes' = b.nodes
           /\ IF b.status = "ok"
              THEN /\ frame' = [frame EXCEPT !.i = @ + 1, !.trunk = b.ret]
                   /\ pc' = "make_tree"
                   /\ UNCHANGED result
              ELSE IF b.status \in {"hang", "bound"}
              THEN /\ pc' = b.status
                   /\ UNCHANGED <<frame, result>>
              ELSE Return(frame.method, b.status, 0)
    /\ UNCHANGED <<args, market, option, params, tree, calls>>

\* a make_tree that leaves self.last one column short (what C15 is compared
\* against)
MakeTreeReturnShort ==
    /\ pc = "make_tree"
    /\ frame.i = params.nb_steps
    /\ tree' = [tree EXCEPT !.last = nodes[frame.trunk].prec_node]
    /\ IF frame.method = "make_tree"
       THEN Return("make_tree", "None", 0)
       ELSE /\ pc' = frame.method
            /\ UNCHANGED <<frame, result>>
    /\ UNCHANGED <<args, market, option, params, nodes, calls>>

\* Tree.make_tree after the loop: self.last is set; make_tree returns, and
\* a pricing method goes on
MakeTreeReturn ==
    /\ pc = "make_tree"
    /\ frame.i = params.nb_steps
    /\ tree' = [tree EXCEPT !.last = frame.trunk]
    /\ IF frame.method = "make_tree"
       THEN Return("make_tree", "None", 0)
       ELSE /\ pc' = frame.method
            /\ UNCHANGED <<frame, result>>
    /\ UNCHANGED <<args, market, option, params, nodes, calls>>

\* Tree.recursive_pricing after make_tree: self.root.price(), with `budget`
\* frames of interpreter stack left.  A RecursionError enters the except
\* clause; any other exception leaves the method.
RecursivePrice(budget) ==
    /\ pc = "recursive_pricing"
    /\ \E r \in {Price(nodes, tree.root, budget, option)} :
           /\ nodes' = r.nodes
           /\ IF r.status = "ok" THEN Return("recursive_pricing", "value", r.val)
              ELSE IF r.status = "RecursionError"
              THEN /\ pc' = "except RecursionError"
                   /\ UNCHANGED <<frame, result>>
              ELSE Return("recursive_pricing", r.status, 0)
    /\ UNCHANGED <<args, market, option, params, tree, calls>>

\* Tree.recursive_pricing, the except clause: a message is printed and the
\* method ends without a return statement
RecursionCaught ==
    /\ pc = "except RecursionError"
    /\ Return("recursive_pricing", "None", 0)
    /\ UNCHANGED <<args, market, option, params, tree, nodes, calls>>

\* Tree.backward_pricing, one iteration of the loop over the columns
BackwardColumn(budget) ==
    /\ pc = "backward_pricing"
    /\ nodes[frame.trunk].date > params.pricing_date
    /\ \E c \in {PriceColumn(nodes, frame.trunk, budget)} :
           /\ nodes' = c.nodes
           /\ IF c.status = "bound"
              THEN /\ pc' = "bound"
                   /\ UNCHANGED <<frame, result>>
              ELSE IF c.status # "ok" THEN Return("backward_pricing", c.status, 0)
              ELSE IF ~nodes[frame.trunk].trunc \/ nodes[frame.trunk].prec_node = 0
              THEN Return("backward_pricing", "AttributeError", 0)
              ELSE /\ frame' = [frame EXCEPT !.trunk = nodes[frame.trunk].prec_node]
                   /\ pc' = "backward_pricing"
                   /\ UNCHANGED result
    /\ UNCHANGED <<args, market, option, params, tree, calls>>

\* Tree.backward_pricing after the loop: the node the walk stopped at is
\* priced and its opt_price returned
BackwardReturn(budget) ==
    /\ pc = "backward_pricing"
    /\ ~(nodes[frame.trunk].date > params.pricing_date)
    /\ \E r \in {Price(nodes, frame.trunk, budget, option)} :
           /\ nodes' = r.nodes
           /\ IF r.status = "ok"
              THEN Return("backward_pricing", "value", r.nodes[frame.trunk].opt_price)
              ELSE Return("backward_pricing", r.status, 0)
    /\ UNCHANGED <<args, market, option, params, tree, calls>>

Next ==
    \/ MarketInit
    \/ OptionInit
    \/ TreeInit
    \/ \E method \in Methods : Call(method)
    \/ BuildColumnStep
    \/ MakeTreeReturn
    \/ \E budget \in StackBudgets : RecursivePrice(budget)
    \/ RecursionCaught
    \/ \E budget \in StackBudgets : BackwardColumn(budget)
    \/ \E budget \in StackBudgets : BackwardReturn(budget)

Spec == Init /\ [][Next]_vars

\* ------------------------------------------------------------------ greeks

\* the default bumps: h = 0.01 (relative, or absolute for dividend_rho),
\* h = 1e-4 for rho, one day for theta and charm
BumpH == 10000
RhoH == 100
BumpDays == 1

\* p_min = 1e-7 of _price on the grid of the model: below its resolution, it
\* is read with strict comparisons only, as 0
GREEK_P_MIN == 0

\* one call of _price: the Market it is given and the shift of the pricing
\* date in days; constructed tells a Market(...) call of the sensitivity
\* function from the caller's own instance
Req(s0, rate, vol, dividend, days) ==
    [s0 |-> s0, rate |-> rate, vol |-> vol, dividend |-> dividend, days |-> days,
     constructed |-> TRUE]

Same(m, days) ==
    [s0 |-> m.s0, rate |-> m.rate, vol |-> m.vol, dividend |-> m.dividend, days |-> days,
     constructed |-> FALSE]

\* delta: its two _price calls, and its return value
DeltaPlan(m, days, h) ==
    << Req(FMul(m.s0, SCALE + h), m.rate, m.vol, m.dividend, days),
       Req(FMul(m.s0, SCALE - h), m.rate, m.vol, m.dividend, days) >>

DeltaValue(p_up, p_down, S0, h) ==
    FDiv(FSub(p_up, p_down), FMul(FMul(S0, Fix(2)), h))

\* gamma: its three _price calls, the second on the Market it was given
\* (`mid`), and its return value
GammaPlan(m, mid, h) ==
    << Req(FMul(m.s0, SCALE + h), m.rate, m.vol, m.dividend, 0),
       mid,
       Req(FMul(m.s0, SCALE - h), m.rate, m.vol, m.dividend, 0) >>

GammaValue(p_up, p_mid, p_down, S0, h) ==
    FDiv(FAdd(FSub(p_up, FMul(Fix(2), p_mid)), p_down), FMul(FMul(S0, h), FMul(S0, h)))

\* the Market speed and zomma construct and hand to gamma
Shifted(m, ds, dv) == [m EXCEPT !.s0 = FAdd(m.s0, ds), !.vol = FAdd(m.vol, dv)]
AsReq(m) == Req(m.s0, m.rate, m.vol, m.dividend, 0)

\* eps of speed and of zomma
SpeedEps(m) == PyMax(1000, FMul(m.s0, BumpH))
ZommaEps(m) == PyMax(100, FMul(m.vol, BumpH))

Greeks ==
    {"delta", "gamma", "vega", "theta", "rho", "vanna", "vomma", "charm", "speed",
     "zomma", "lambda_elasticity", "dividend_rho"}

\* the _price calls of each sensitivity function, in the order it makes them
GreekPlan(g, m) ==
    CASE g = "delta" -> DeltaPlan(m, 0, BumpH)
      [] g = "gamma" -> GammaPlan(m, Same(m, 0), BumpH)
      [] g = "vega" ->
            << Req(m.s0, m.rate, FMul(m.vol, SCALE + BumpH), m.dividend, 0),
               Req(m.s0, m.rate, FMul(m.vol, SCALE - BumpH), m.dividend, 0) >>
      [] g = "theta" -> << Same(m, 0), Same(m, BumpDays) >>
      [] g = "rho" ->
            << Req(m.s0, FAdd(m.rate, RhoH), m.vol, m.dividend, 0),
               Req(m.s0, FSub(m.rate, RhoH), m.vol, m.dividend, 0) >>
      [] g = "vanna" ->
            << Req(FMul(m.s0, SCALE + BumpH), m.rate, FMul(m.vol, SCALE + BumpH), m.dividend, 0),
               Req(FMul(m.s0, SCALE + BumpH), m.rate, FMul(m.vol, SCALE - BumpH), m.dividend, 0),
               Req(FMul(m.s0, SCALE - BumpH), m.rate, FMul(m.vol, SCALE + BumpH), m.dividend, 0),
               Req(FMul(m.s0, SCALE - BumpH), m.rate, FMul(m.vol, SCALE - BumpH), m.dividend, 0) >>
      [] g = "vomma" ->
            << Req(m.s0, m.rate, FMul(m.vol, SCALE + BumpH), m.dividend, 0),
               Req(m.s0, m.rate, FMul(m.vol, SCALE - BumpH), m.dividend, 0),
               Same(m, 0) >>
      [] g = "charm" -> DeltaPlan(m, 0, BumpH) \o DeltaPlan(m, BumpDays, BumpH)
      [] g = "speed" ->
            GammaPlan(Shifted(m, SpeedEps(m), 0), AsReq(Shifted(m, SpeedEps(m), 0)), BumpH)
            \o GammaPlan(Shifted(m, FNeg(SpeedEps(m)), 0),
                         AsReq(Shifted(m, FNeg(SpeedEps(m)), 0)), BumpH)
      [] g = "zomma" ->
            GammaPlan(Shifted(m, 0, ZommaEps(m)), AsReq(Shifted(m, 0, ZommaEps(m))), BumpH)
            \o GammaPlan(Shifted(m, 0, FNeg(ZommaEps(m))),
                         AsReq(Shifted(m, 0, FNeg(ZommaEps(m)))), BumpH)
      [] g = "lambda_elasticity" -> << Same(m, 0) >> \o DeltaPlan(m, 0, BumpH)
      [] g = "dividend_rho" ->
            << Req(m.s0, m.rate, m.vol, FAdd(m.dividend, BumpH), 0),
               Req(m.s0, m.rate, m.vol, PyMax(FSub(m.dividend, BumpH), 0), 0) >>

\* the return value of each sensitivity function from the prices p of its
\* _price calls
GreekValue(g, m, p) ==
    CASE g = "delta" -> DeltaValue(p[1], p[2], m.s0, BumpH)
      [] g = "gamma" -> GammaValue(p[1], p[2], p[3], m.s0, BumpH)
      [] g = "vega" -> FDiv(FSub(p[1], p[2]), FMul(FMul(Fix(2), m.vol), BumpH))
      [] g = "theta" -> FDiv(FSub(p[2], p[1]), Fix(BumpDays))
      [] g = "rho" -> FDiv(FSub(p[1], p[2]), FMul(Fix(2), RhoH))
      [] g = "vanna" ->
            FDiv(FAdd(FSub(FSub(p[1], p[2]), p[3]), p[4]),
                 FMul(FMul(FMul(FMul(Fix(4), m.s0), BumpH), m.vol), BumpH))
      [] g = "vomma" ->
            FDiv(FAdd(FSub(p[1], FMul(Fix(2), p[3])), p[2]),
                 FMul(FMul(m.vol, BumpH), FMul(m.vol, BumpH)))
      [] g = "charm" ->
            FDiv(FSub(DeltaValue(p[3], p[4], m.s0, BumpH), DeltaValue(p[1], p[2], m.s0, BumpH)),
                 Fix(BumpDays))
      [] g = "speed" ->
            FDiv(FSub(GammaValue(p[1], p[2], p[3], FAdd(m.s0, SpeedEps(m)), BumpH),
                      GammaValue(p[4], p[5], p[6], FSub(m.s0, SpeedEps(m)), BumpH)),
                 FMul(Fix(2), SpeedEps(m)))
      [] g = "zomma" ->
            FDiv(FSub(GammaValue(p[1], p[2], p[3], m.s0, BumpH),
                      GammaValue(p[4], p[5], p[6], m.s0, BumpH)),
                 FMul(Fix(2), ZommaEps(m)))
      [] g = "lambda_elasticity" ->
            IF p[1] # 0 THEN FDiv(FMul(DeltaValue(p[2], p[3], m.s0, BumpH), m.s0), p[1]) ELSE 0
      [] g = "dividend_rho" -> FDiv(FSub(p[1], p[2]), FMul(Fix(2), BumpH))

\* the Market instances the callers of the sensitivity functions hold
GreekMarkets ==
    { [s0 |-> Fix(5), rate |-> 50000, vol |-> 300000, dividend |-> d[1], ex_div_date |-> d[2]] :
        d \in {<<0, FarFuture>>, <<5000, 100 * TicksPerDay>>, <<500000, 100 * TicksPerDay>>} }

\* the arguments of a call of a sensitivity function
GreekArgs ==
    [greek : Greeks, mkt : GreekMarkets,
     opt : [K : Strikes, maturity : {365 * TicksPerDay}, call_put : {"call", "put"},
            eur_am : {"european"}],
     n_steps : 1 .. 2, pricing_date : {0}]

GreekInit ==
    /\ args \in GreekArgs
    /\ market = NoMarket
    /\ option = NoOption
    /\ params = NoParams
    /\ tree = NoTree
    /\ nodes = <<>>
    /\ pc = "greek"
    /\ frame = NoFrame
    /\ result = <<>>
    /\ calls = 0

\* a sensitivity function is between two _price calls
GreekReady == pc = "greek" \/ (pc = "idle" /\ calls = 1)

\* every _price call made so far returned a price
GreekPriced == \A k \in DOMAIN result : result[k].kind = "value"

\* the Market a sensitivity function passes to _price for the request q
GreekMarket(q) ==
    IF q.constructed
    THEN [s0 |-> q.s0, rate |-> q.rate, vol |-> q.vol, dividend |-> q.dividend,
          ex_div_date |-> IF q.dividend # 0 /\ args.mkt.ex_div_date # NoneV
                          THEN args.mkt.ex_div_date ELSE FarFuture]
    ELSE args.mkt

\* a sensitivity function whose bump is written into the Market it was
\* given (what C19 is compared against)
GreekPriceInPlace(q) ==
    /\ market' = [GreekMarket(q) EXCEPT !.ex_div_date = args.mkt.ex_div_date]
    /\ args' = [args EXCEPT !.mkt = market']
    /\ option' = args.opt
    /\ params' = [pricing_date |-> args.pricing_date + q.days * TicksPerDay,
                  nb_steps |-> args.n_steps, pruning |-> TRUE, p_min |-> GREEK_P_MIN]
    /\ pc' = "Tree"
    /\ UNCHANGED result

\* a sensitivity function constructs the Market of its next _price call (a
\* negative spot or volatility raises ValueError out of the function), and
\* _price constructs its PricerParameters; the Tree follows
GreekPrice(q) ==
    IF q.constructed /\ (q.s0 < 0 \/ q.vol < 0)
    THEN /\ result' = Append(result, Outcome(args.greek, "ValueError", 0))
         /\ pc' = "done"
         /\ UNCHANGED <<args, market, option, params>>
    ELSE /\ market' = GreekMarket(q)
         /\ option' = args.opt
         /\ params' = [pricing_date |-> args.pricing_date + q.days * TicksPerDay,
                       nb_steps |-> args.n_steps, pruning |-> TRUE, p_min |-> GREEK_P_MIN]
         /\ pc' = "Tree"
         /\ UNCHANGED <<args, result>>

GreekPriceCall ==
    /\ GreekReady /\ GreekPriced
    /\ Len(result) < Len(GreekPlan(args.greek, args.mkt))
    /\ GreekPrice(GreekPlan(args.greek, args.mkt)[Len(result) + 1])
    /\ tree' = NoTree
    /\ nodes' = <<>>
    /\ frame' = NoFrame
    /\ calls' = 0

\* _price: tree.backward_pricing() on the Tree it has just constructed
PriceCall ==
    /\ calls = 0
    /\ Call("backward_pricing")

\* the return of a sensitivity function: its value from the prices, or the
\* exception that left a _price call
GreekReturn ==
    /\ GreekReady
    /\ ~GreekPriced \/ Len(result) = Len(GreekPlan(args.greek, args.mkt))
    /\ result' = Append(result,
                        IF GreekPriced
                        THEN Outcome(args.greek, "value",
                                     GreekValue(args.greek, args.mkt,
                                                [k \in DOMAIN result |-> result[k].value]))
                        ELSE Outcome(args.greek, result[Len(result)].kind, 0))
    /\ pc' = "done"
    /\ UNCHANGED <<args, market, option, params, tree, nodes, frame, calls>>

GreekNext ==
    \/ GreekPriceCall
    \/ TreeInit
    \/ PriceCall
    \/ BuildColumnStep
    \/ MakeTreeReturn
    \/ \E budget \in StackBudgets : BackwardColumn(budget)
    \/ \E budget \in StackBudgets : BackwardReturn(budget)
    \/ GreekReturn

GreekSpec == GreekInit /\ [][GreekNext]_vars

\* ------------------------------------------------------------------- claims

\* the pricing calls made so far all returned (none raised, none is stuck)
NoFailure ==
    /\ pc \notin {"hang", "bound", "failed"}
    /\ \A k \in DOMAIN result : result[k].kind \in {"value", "None"}

\* the validation the specification asks of a triple: the sum is 1 and
\* each component is in [0, 1], within PROB_TOL
ValidTriple(n) ==
    /\ FLe(FAbs(FSub(FAdd(FAdd(n.p_up, n.p_mid), n.p_down), SCALE)), PROB_TOL)
    /\ \A p \in {n.p_up, n.p_mid, n.p_down} : FGe(p, -PROB_TOL) /\ FLe(p, SCALE + PROB_TOL)

\* C1: on one Tree, every price returned by recursive_pricing equals every
\* price returned by backward_pricing (a recursion that ran out of stack
\* returns no price and is not compared).
C1_SamePrice ==
    \A j, k \in DOMAIN result :
        /\ result[j].method = "recursive_pricing" /\ result[j].kind = "value"
        /\ result[k].method = "backward_pricing" /\ result[k].kind = "value"
        => result[j].value = result[k].value

\* C2: when no call has failed, every node that was given successors holds
\* a triple that sums to 1 with each component in [0, 1].
C2_ValidTriples ==
    NoFailure => \A i \in DOMAIN nodes : nodes[i].next_mid # 0 => ValidTriple(nodes[i])

\* C3: with pruning on, every node on which probas() has run and whose
\* p_node is below p_min holds the triple (0, 1, 0).
C3_PrunedIsMonomial ==
    pc \notin {"hang", "bound"} /\ params.pruning
    => \A i \in DOMAIN nodes :
           nodes[i].next_mid # 0 /\ FLt(nodes[i].p_node, params.p_min)
           => /\ nodes[i].p_up = 0
              /\ nodes[i].p_mid = SCALE
              /\ nodes[i].p_down = 0

\* C3 witness: a pruned inner node of a lattice that was built to its end
C3_Witness ==
    /\ params.pruning
    /\ pc = "idle"
    /\ tree.last # 0
    /\ \E i \in DOMAIN nodes :
           /\ nodes[i].next_mid # 0
           /\ FLt(nodes[i].p_node, params.p_min)
           /\ nodes[i].p_node > 0
           /\ nodes[i].p_mid = SCALE

\* the lattice as the same contract with European exercise finds it: the
\* same nodes and probabilities, nothing priced yet
Unpriced == [i \in DOMAIN nodes |-> [nodes[i] EXCEPT !.opt_price = NoneV, !.is_exerced = FALSE]]
EuropeanTwin == [option EXCEPT !.eur_am = "european"]

\* C4: every value an American contract's pricing has stored in a node,
\* the root included, is at least the value the European contract's
\* pricing gives that node.
C4_AmericanAtLeastEuropean ==
    IsAmerican(option)
    => \A i \in DOMAIN nodes :
           nodes[i].opt_price # NoneV
           => FGe(nodes[i].opt_price, Price(Unpriced, i, MaxSteps + 2, EuropeanTwin).val)

\* C5: two calls of one pricing method on one Tree return the same price;
\* make_tree starts each call from a root created by that call, and no node
\* of the lattice being built carries a price or a link into an older lattice.
C5_Deterministic ==
    /\ \A j, k \in DOMAIN result :
           /\ result[j].method = result[k].method
           /\ result[j].kind = "value" /\ result[k].kind = "value"
           => result[j].value = result[k].value
    /\ pc = "make_tree" /\ frame.i = 0 => tree.root = Len(nodes) /\ nodes[tree.root] = RootNode
    /\ pc = "make_tree"
       => \A i \in tree.root .. Len(nodes) :
              /\ nodes[i].opt_price = NoneV
              /\ \A l \in {nodes[i].next_up, nodes[i].next_mid, nodes[i].next_down,
                           nodes[i].up_node, nodes[i].down_node, nodes[i].prec_node} :
                     l = 0 \/ l >= tree.root

\* C5 witness: the same pricing method has returned twice on one Tree, each
\* time with a finite price, the second from a second lattice
C5_Witness ==
    /\ Len(result) = 2
    /\ result[1].method = "backward_pricing" /\ result[2].method = "backward_pricing"
    /\ result[1].kind = "value" /\ result[2].kind = "value"
    /\ IsFinite(result[2].value) /\ result[2].value > 0
    /\ tree.root > 1
    /\ nodes[1].opt_price = result[1].value

\* C6: no call is ever caught in a loop that cannot end.
C6_Completes == pc # "hang"

\* C7 as stated: with pruning on and no p_min, the constructor raises, so
\* no Tree ever stands ready for a pricing call.
C7_ConstructorRaises == ~(params.pruning /\ params.p_min = NoneV /\ pc = "idle")

\* C7: with pruning on and no p_min, the constructor raises nothing; the
\* only errors are the ValueErrors of the make_tree, recursive_pricing and
\* backward_pricing calls, one for each call made.
C7_RaisedByFirstCall ==
    params.pruning /\ params.p_min = NoneV
    => /\ pc \in {"Tree", "idle"}
       /\ Len(result) = calls
       /\ \A k \in DOMAIN result :
              result[k].method \in Methods /\ result[k].kind = "ValueError"

\* C7 witness: the Tree was constructed and its first pricing call raised
C7_Witness ==
    /\ params.pruning /\ params.p_min = NoneV
    /\ tree.alpha # 0
    /\ calls = 1
    /\ result = <<Outcome("backward_pricing", "ValueError", 0)>>

\* C8: with pruning on and no p_min, no node is ever created, root and last
\* stay None, and every call of the three methods ends with the ValueError
\* and no price.
C8_NoNodeBeforeError ==
    params.pruning /\ params.p_min = NoneV
    => /\ nodes = <<>>
       /\ tree.root = 0 /\ tree.last = 0
       /\ pc \notin {"make_tree", "recursive_pricing", "backward_pricing"}
       /\ \A k \in DOMAIN result : result[k].kind = "ValueError" /\ result[k].value = 0

\* C8 witness: both pricing methods were called and both raised
C8_Witness ==
    /\ params.pruning /\ params.p_min = NoneV
    /\ Len(result) = 2
    /\ {result[1].method, result[2].method} = {"recursive_pricing", "backward_pricing"}
    /\ result[1].kind = "ValueError" /\ result[2].kind = "ValueError"

\* C9: once the recursion has run out of stack, recursive_pricing leaves
\* with that condition raised to its caller.
C9_SignalsExhaustion ==
    [][pc = "except RecursionError"
       => /\ Len(result') = Len(result) + 1
          /\ result'[Len(result')].kind = "RecursionError"]_vars

\* C10: no node ever stores a triple that fails the validation: a node
\* holds the triple of its construction, (0, 0, 0), or a valid one.
C10_InvalidNeverStored ==
    \A i \in DOMAIN nodes :
        \/ nodes[i].p_up = 0 /\ nodes[i].p_mid = 0 /\ nodes[i].p_down = 0
        \/ ValidTriple(nodes[i])

\* the closed forms of probas() met an arithmetic failure at node n: a zero
\* denominator or a zero middle price left a component that is no number
SolveFailed(n) ==
    \E p \in {ProbaTriple(n, nodes[n.next_mid].und_price)} :
        ~IsFinite(p.p_up) \/ ~IsFinite(p.p_mid) \/ ~IsFinite(p.p_down)

\* C11: every node whose probability system met an arithmetic failure ends
\* with the degenerate triple (0, 1, 0).
C11_DegradesToMiddle ==
    pc \notin {"hang", "bound"}
    => \A i \in DOMAIN nodes :
           nodes[i].next_mid # 0 /\ SolveFailed(nodes[i])
           => nodes[i].p_up = 0 /\ nodes[i].p_mid = SCALE /\ nodes[i].p_down = 0

\* C12: a Market call with a negative spot or volatility raises ValueError
\* and a zero of either is accepted; an Option call with an unknown type or
\* exercise style raises; a call that raised produced no object, and nothing
\* was built after it.
C12_InvalidRejected ==
    /\ pc # "Market" /\ (args.s0 < 0 \/ args.vol < 0)
       => /\ pc = "failed"
          /\ result = <<Outcome("Market", "ValueError", 0)>>
          /\ market = NoMarket /\ option = NoOption /\ tree = NoTree /\ nodes = <<>>
    /\ pc # "Market" /\ args.s0 >= 0 /\ args.vol >= 0
       => /\ market.s0 = args.s0 /\ market.vol = args.vol
          /\ \A k \in DOMAIN result : result[k].method # "Market"
    /\ pc \notin {"Market", "Option"} /\ args.s0 >= 0 /\ args.vol >= 0
       => IF args.call_put \in {"call", "put"} /\ args.eur_am \in {"european", "american"}
          THEN /\ option.call_put = args.call_put /\ option.eur_am = args.eur_am
               /\ \A k \in DOMAIN result : result[k].method # "Option"
          ELSE /\ pc = "failed"
               /\ Len(result) = 1 /\ result[1].method = "Option"
               /\ result[1].kind \notin {"value", "None"}
               /\ option = NoOption /\ tree = NoTree /\ nodes = <<>>

\* C12 witness: a Market call with spot 0 and a negative volatility raised
C12_Witness ==
    /\ args.s0 = 0 /\ args.vol < 0
    /\ pc = "failed"
    /\ result = <<Outcome("Market", "ValueError", 0)>>
    /\ market = NoMarket

\* the intrinsic value the specification gives: max(S - K, 0) for a call,
\* max(K - S, 0) for a put
Intrinsic(call_put, S, K) ==
    IF call_put = "call" THEN (IF S - K > 0 THEN S - K ELSE 0)
    ELSE (IF K - S > 0 THEN K - S ELSE 0)

\* underlying prices and strikes below, at and above one another
PayoffGrid == {0, 1, Fix(5), Fix(80), Fix(100), Fix(120)}

\* C13: payoff(S) is max(S - K, 0) for a call and max(K - S, 0) for a put,
\* and is never negative: for every S and K of the grid, and for every
\* terminal node the pricing has valued with the contract's payoff.
C13_PayoffIsIntrinsic ==
    /\ \A S \in PayoffGrid, K \in PayoffGrid, cp \in {"call", "put"} :
           /\ Payoff([NoOption EXCEPT !.K = K, !.call_put = cp], S) = Intrinsic(cp, S, K)
           /\ Payoff([NoOption EXCEPT !.K = K, !.call_put = cp], S) >= 0
    /\ \A i \in DOMAIN nodes :
           nodes[i].next_mid = 0 /\ nodes[i].opt_price # NoneV /\ IsFinite(nodes[i].und_price)
           => /\ nodes[i].opt_price = Intrinsic(option.call_put, nodes[i].und_price, option.K)
              /\ nodes[i].opt_price >= 0

\* C13 witness: a put has been priced, with one terminal node in the money
\* and one out of the money
C13_Witness ==
    /\ option.call_put = "put"
    /\ \E i, j \in DOMAIN nodes :
           /\ nodes[i].next_mid = 0 /\ nodes[j].next_mid = 0
           /\ nodes[i].und_price < option.K /\ nodes[i].opt_price = option.K - nodes[i].und_price
           /\ nodes[j].und_price > option.K /\ nodes[j].opt_price = 0

\* C14: a Market constructed with dividend amount 0 or with no ex-dividend
\* date carries the far-future date; then dividend_period() is false at
\* every node, the forward of every node that was given successors is its
\* pure forward, and the middle successor of every trunk node stands at it.
C14_SentinelDisablesDividend ==
    market # NoMarket /\ (args.dividend_amount = 0 \/ args.ex_div_date = NoneV)
    => /\ market.ex_div_date = FarFuture
       /\ \A i \in DOMAIN nodes :
              /\ ~DividendPeriod(nodes[i])
              /\ nodes[i].next_mid # 0
                 => ForwardVariance(nodes[i]).expected_value
                        = FMul(nodes[i].und_price, Exp(FMul(market.rate, tree.delta_t)))
              /\ nodes[i].trunc /\ nodes[i].next_mid # 0
                 => nodes[nodes[i].next_mid].und_price
                        = FMul(nodes[i].und_price, Exp(FMul(market.rate, tree.delta_t)))

\* C14 witness: a lattice of MaxSteps columns built from a Market that was
\* given an ex-dividend date inside the horizon with an amount of 0
C14_Witness ==
    /\ args.dividend_amount = 0 /\ args.ex_div_date = 100 * TicksPerDay
    /\ market.ex_div_date = FarFuture
    /\ params.nb_steps = MaxSteps
    /\ pc = "idle" /\ tree.last # 0
    /\ nodes[tree.last].date > args.ex_div_date

\* the node reached from node i by k next_mid links, or by k prec_node
\* links; 0 when a link is missing on the way
RECURSIVE AlongNextMid(_, _)
AlongNextMid(i, k) ==
    IF k = 0 \/ i = 0 THEN i ELSE AlongNextMid(nodes[i].next_mid, k - 1)

RECURSIVE AlongPrecNode(_, _)
AlongPrecNode(i, k) ==
    IF k = 0 \/ i = 0 THEN i ELSE AlongPrecNode(nodes[i].prec_node, k - 1)

\* C15: once make_tree() has returned, the root stands at (spot, pricing
\* date) with p_node = 1 and no prec_node; nb_steps next_mid links lead from
\* the root to tree.last, which has no next_mid; nb_steps prec_node links
\* lead back from tree.last to the root; and every trunk node on the way is
\* the next_mid of its prec_node.
C15_TrunkChain ==
    tree.last # 0 /\ pc # "make_tree"
    => /\ nodes[tree.root].und_price = market.s0
       /\ nodes[tree.root].date = params.pricing_date
       /\ nodes[tree.root].p_node = SCALE
       /\ nodes[tree.root].trunc /\ nodes[tree.root].prec_node = 0
       /\ AlongNextMid(tree.root, params.nb_steps) = tree.last
       /\ nodes[tree.last].next_mid = 0
       /\ AlongPrecNode(tree.last, params.nb_steps) = tree.root
       /\ \A k \in 1 .. params.nb_steps :
              /\ AlongNextMid(tree.root, k) # 0
              /\ nodes[AlongNextMid(tree.root, k)].trunc
              /\ nodes[AlongNextMid(tree.root, k)].prec_node = AlongNextMid(tree.root, k - 1)
              /\ nodes[AlongNextMid(tree.root, k)].date
                     = params.pricing_date + k * TimeStep

\* C15 witness: make_tree() has returned from building MaxSteps columns
\* across an ex-dividend date
C15_Witness ==
    /\ params.nb_steps = MaxSteps
    /\ market.dividend # 0 /\ market.ex_div_date # FarFuture
    /\ pc = "idle"
    /\ result = <<Outcome("make_tree", "None", 0)>>
    /\ tree.last # tree.root /\ tree.last # 0

\* C16: the links inside a column are mutually inverse: the up_node of a
\* node has that node as its down_node, and the down_node of a node has
\* that node as its up_node.
C16_LinksInverse ==
    \A i \in DOMAIN nodes :
        /\ nodes[i].up_node # 0 => nodes[nodes[i].up_node].down_node = i
        /\ nodes[i].down_node # 0 => nodes[nodes[i].down_node].up_node = i

\* C17: every price backward_pricing() returns is >= 0, and so is the value
\* cached in every priced node.
C17_NonNegative ==
    /\ \A k \in DOMAIN result :
           result[k].method = "backward_pricing" /\ result[k].kind = "value"
           => FGe(result[k].value, 0)
    /\ \A i \in DOMAIN nodes : nodes[i].opt_price # NoneV => FGe(nodes[i].opt_price, 0)

\* a _price call of a sensitivity function is in progress: market and
\* params are those of its call number Len(result) + 1
GreekPricing ==
    \/ pc \in {"Tree", "make_tree", "backward_pricing"}
    \/ pc = "idle" /\ calls = 0

\* the point of parameter space a price is computed at, that of the caller,
\* and the caller's point moved by k steps along one axis
Point(m, date) ==
    [s0 |-> m.s0, rate |-> m.rate, vol |-> m.vol, dividend |-> m.dividend, date |-> date]

BasePoint == Point(args.mkt, args.pricing_date)

Moved(b, axis, step, k) == [b EXCEPT ![axis] = @ + k * step]

\* the parameter each Greek differentiates in, and its step h
GreekAxis(g) ==
    CASE g \in {"delta", "gamma"} -> "s0"
      [] g \in {"vega", "vomma"} -> "vol"
      [] g = "theta" -> "date"
      [] g = "rho" -> "rate"
      [] g = "dividend_rho" -> "dividend"

GreekStep(g) ==
    CASE g \in {"delta", "gamma"} -> FMul(args.mkt.s0, BumpH)
      [] g \in {"vega", "vomma"} -> FMul(args.mkt.vol, BumpH)
      [] g = "theta" -> BumpDays * TicksPerDay
      [] g = "rho" -> RhoH
      [] g = "dividend_rho" -> BumpH

\* the points of a symmetric stencil, in the order the prices are taken:
\* x+h, x-h (first order); x+h, x, x-h in the function's order (second order)
Offsets(g) ==
    CASE g \in {"delta", "vega", "theta", "rho", "dividend_rho"} -> <<1, -1>>
      [] g = "gamma" -> <<1, 0, -1>>
      [] g = "vomma" -> <<1, -1, 0>>

CentralPoint(g, k) ==
    IF g = "vanna"
    THEN Moved(Moved(BasePoint, "s0", FMul(args.mkt.s0, BumpH), <<1, 1, -1, -1>>[k]),
               "vol", FMul(args.mkt.vol, BumpH), <<1, -1, 1, -1>>[k])
    ELSE Moved(BasePoint, GreekAxis(g), GreekStep(g), Offsets(g)[k])

\* the symmetric difference quotient of the prices p
CentralValue(g, p) ==
    CASE g \in {"delta", "vega", "rho", "dividend_rho"} ->
            FDiv(FSub(p[1], p[2]), FMul(Fix(2), GreekStep(g)))
      [] g = "theta" -> FDiv(FSub(p[1], p[2]), FMul(Fix(2), Fix(BumpDays)))
      [] g = "gamma" ->
            FDiv(FAdd(FSub(p[1], FMul(Fix(2), p[2])), p[3]), FMul(GreekStep(g), GreekStep(g)))
      [] g = "vomma" ->
            FDiv(FAdd(FSub(p[1], FMul(Fix(2), p[3])), p[2]), FMul(GreekStep(g), GreekStep(g)))
      [] g = "vanna" ->
            FDiv(FAdd(FSub(FSub(p[1], p[2]), p[3]), p[4]),
                 FMul(FMul(Fix(4), FMul(args.mkt.s0, BumpH)), FMul(args.mkt.vol, BumpH)))

CentralGreeks == {"delta", "vega", "theta", "rho", "dividend_rho", "gamma", "vomma", "vanna"}

\* C18: every price of a Greek comes from backward_pricing() with pruning on
\* and the floor of _price; the prices of Delta, Vega, Theta, Rho and
\* dividend-Rho are taken at x+h and x-h and the Greek is their difference
\* over 2h; those of Gamma and Vomma at x+h, x and x-h and the Greek is the
\* second difference over h^2; those of Vanna at the four corners and the
\* Greek is the stencil over 4*h_a*h_b.
C18_CentralDifferences ==
    args.greek \in CentralGreeks
    => /\ GreekPricing
          => /\ params.pruning /\ params.p_min = GREEK_P_MIN
             /\ frame.method \in {"", "backward_pricing"}
             /\ Point(market, params.pricing_date) = CentralPoint(args.greek, Len(result) + 1)
       /\ pc = "done" /\ GreekPriced
          => result[Len(result)].value
                 = CentralValue(args.greek, [k \in DOMAIN result |-> result[k].value])

\* the steps in which an object is constructed from the caller's values:
\* Market(...) and Option(...) / PricerParameters(...) of the caller, and the
\* Market and PricerParameters a sensitivity function builds for _price
Constructing == pc \in {"Market", "Option"} \/ pc' = "Tree"

\* the request a sensitivity function is about to price
NextRequest == GreekPlan(args.greek, args.mkt)[Len(result) + 1]

Built ==
    /\ NoFailure
    /\ tree.last # 0 /\ tree.last >= tree.root
    /\ pc \in {"idle", "recursive_pricing", "backward_pricing"}

\* the nodes of the lattice make_tree() built last
Lattice == { i \in DOMAIN nodes : i >= tree.root }

\* C21: in a built lattice, for every node with three successors whose
\* middle successor has a middle successor, up-then-down, middle-then-middle
\* and down-then-up end on one node; and no two nodes of a column (same
\* date) stand at the same price.
C21_Recombines ==
    Built
    => /\ \A i \in Lattice :
              /\ nodes[i].next_up # 0 /\ nodes[i].next_mid # 0 /\ nodes[i].next_down # 0
              /\ nodes[nodes[i].next_mid].next_mid # 0
              => /\ nodes[nodes[i].next_up].next_down = nodes[nodes[i].next_mid].next_mid
                 /\ nodes[nodes[i].next_down].next_up = nodes[nodes[i].next_mid].next_mid
       /\ \A i, j \in Lattice :
              nodes[i].date = nodes[j].date /\ nodes[i].und_price = nodes[j].und_price
              => i = j

\* C22: in a built lattice, a node with a middle successor and no up
\* successor has p_up = 0, and one with no down successor has p_down = 0.
C22_MissingCarriesZero ==
    Built
    => \A i \in Lattice :
           nodes[i].next_mid # 0
           => /\ nodes[i].next_up = 0 => nodes[i].p_up = 0
              /\ nodes[i].next_down = 0 => nodes[i].p_down = 0

\* the nodes one forward link (next_up, next_mid, next_down) away from a
\* node of S, and the nodes k forward links away from the root
Successors(S) ==
    { j \in DOMAIN nodes :
        \E i \in S : j \in {nodes[i].next_up, nodes[i].next_mid, nodes[i].next_down} }

RECURSIVE Column(_)
Column(k) == IF k = 0 THEN {tree.root} ELSE Successors(Column(k - 1))

\* C23: in a built lattice, every node reached from the root by fewer than
\* nb_steps forward links has a middle successor: only the nodes of the
\* last column are priced by the payoff.
C23_TerminalOnlyAtMaturity ==
    Built
    => \A k \in 0 .. params.nb_steps - 1 :
           \A i \in Column(k) : nodes[i].next_mid # 0

\* the sum of the p_node values of a set of nodes
RECURSIVE Mass(_)
Mass(S) ==
    IF S = {} THEN 0
    ELSE LET i == CHOOSE j \in S : TRUE IN FAdd(nodes[i].p_node, Mass(S \ {i}))

\* the rounding a column's sum may carry on the grid of the model
MassTol == SCALE \div 10000

\* C24: in a built lattice the p_node values of every column sum to 1.
C24_MassConserved ==
    Built
    => \A k \in 0 .. params.nb_steps :
           FLe(FAbs(FSub(Mass(Column(k)), SCALE)), MassTol)

\* C25: while backward_pricing() walks back, every node of a column after
\* the one it stands at holds a cached value, so a price() call finds its
\* successors priced; and no backward_pricing() call runs out of stack,
\* whatever the stack it is given beyond two frames.
C25_ColumnsInOrder ==
    /\ pc = "backward_pricing"
       => \A k \in 0 .. params.nb_steps :
              \A i \in Column(k) :
                  nodes[i].date > nodes[frame.trunk].date => nodes[i].opt_price # NoneV
    /\ \A k \in DOMAIN result :
           result[k].method = "backward_pricing" => result[k].kind # "RecursionError"

\* the ex-dividend date lies in (pricing date, maturity]
ExInHorizon ==
    /\ market.dividend # 0
    /\ params.pricing_date < market.ex_div_date
    /\ market.ex_div_date <= option.maturity

\* the columns whose trunk node reports a dividend period
DividendColumns ==
    { k \in 0 .. params.nb_steps - 1 : DividendPeriod(nodes[AlongNextMid(tree.root, k)]) }

\* C26: with the ex-dividend date in (pricing date, maturity], the columns
\* that are a dividend period are the columns k with date_k < ex-date <=
\* date_k + TimeStep, there is exactly one, and every node of a column gives
\* the answer of its column.
C26_OneDividendColumn ==
    Built /\ ExInHorizon
    => /\ DividendColumns
              = { k \in 0 .. params.nb_steps - 1 :
                    /\ params.pricing_date + k * TimeStep < market.ex_div_date
                    /\ market.ex_div_date <= params.pricing_date + (k + 1) * TimeStep }
       /\ Cardinality(DividendColumns) = 1
       /\ \A k \in 0 .. params.nb_steps - 1 :
              \A i \in Column(k) : DividendPeriod(nodes[i]) = (k \in DividendColumns)

\* the nodes at and above (dir "up") or at and below (dir "down") node i on
\* its column's chain of up_node / down_node links, over at most `fuel` links
RECURSIVE Chain(_, _, _)
Chain(i, dir, fuel) ==
    IF i = 0 THEN {}
    ELSE IF fuel = 0 THEN {i}
    ELSE {i} \cup Chain(IF dir = "up" THEN nodes[i].up_node ELSE nodes[i].down_node,
                        dir, fuel - 1)

\* the column a node of the lattice stands in, and that column's chain
ColumnOf(i) == (nodes[i].date - params.pricing_date) \div TimeStep

ChainOfColumn(k) ==
    Chain(AlongNextMid(tree.root, k), "up", MaxColumn)
        \cup Chain(AlongNextMid(tree.root, k), "down", MaxColumn)

\* C27: once find_next_mid has returned for a node in a dividend step, the
\* node's forward F lies in the band of its middle successor m,
\* (m + m/alpha)/2 < F <= (m + m*alpha)/2, and m is a node of the next
\* column, on that column's chain of up_node / down_node links.
C27_ForwardInBand ==
    pc \notin {"hang", "bound"}
    => \A i \in Lattice :
           nodes[i].next_mid # 0 /\ DividendPeriod(nodes[i])
           => /\ FLt(LowerEdge(nodes[nodes[i].next_mid].und_price),
                     ForwardVariance(nodes[i]).expected_value)
              /\ FLe(ForwardVariance(nodes[i]).expected_value,
                     UpperEdge(nodes[nodes[i].next_mid].und_price))
              /\ nodes[nodes[i].next_mid].date = nodes[i].date + TimeStep
              /\ nodes[i].next_mid \in ChainOfColumn(ColumnOf(i) + 1)

\* C27 witness: in a built lattice a node off the trunk has, in the dividend
\* step, a middle successor that is not the node it would have had without
\* the dividend (the up successor of its lower neighbour's middle successor)
C27_Witness ==
    /\ Built
    /\ \E i \in Lattice :
           /\ nodes[i].next_mid # 0 /\ DividendPeriod(nodes[i])
           /\ nodes[i].down_node # 0 /\ ~nodes[i].trunc
           /\ nodes[nodes[i].down_node].next_up # 0
           /\ nodes[i].next_mid # nodes[nodes[i].down_node].next_up

\* the price a successor link brings to the mean; a missing successor brings
\* nothing
SuccPrice(j) == IF j = 0 THEN 0 ELSE nodes[j].und_price

\* the mean of the triple of node i over its three successors
TripleMean(i) ==
    FAdd(FAdd(FMul(nodes[i].p_up, SuccPrice(nodes[i].next_up)),
              FMul(nodes[i].p_mid, SuccPrice(nodes[i].next_mid))),
         FMul(nodes[i].p_down, SuccPrice(nodes[i].next_down)))

\* the node's probabilities were computed by one of the two formulas of
\* probas(), not set by its pruned branch
FormulaNode(i) ==
    /\ nodes[i].next_mid # 0
    /\ ~(params.pruning /\ FLt(nodes[i].p_node, params.p_min))

\* the rounding the mean of a triple may carry on the grid of the model
MeanTol == SCALE \div 1000

\* C28: in a built lattice the triple of every node whose probabilities come
\* from a formula reproduces the node's dividend-adjusted one-step forward:
\* p_up * S_up + p_mid * S_mid + p_down * S_down = F, in dividend and
\* non-dividend steps, with pruning on or off.
C28_MeanReproduced ==
    Built
    => \A i \in Lattice :
           FormulaNode(i)
           => FLe(FAbs(FSub(TripleMean(i), ForwardVariance(nodes[i]).expected_value)),
                  MeanTol)

\* a price() call on node i with a single frame of stack left answers from
\* the node's cache: it returns the stored value and writes nothing
CacheHit(i) ==
    Price(nodes, i, 1, option) = [nodes |-> nodes, val |-> nodes[i].opt_price, status |-> "ok"]

\* every priced node answers from its cache
AllCacheHit == \A i \in DOMAIN nodes : nodes[i].opt_price # NoneV => CacheHit(i)

\* a node that is priced keeps its opt_price and its is_exerced
PricedKept ==
    \A i \in DOMAIN nodes :
        nodes[i].opt_price # NoneV
        => /\ i \in DOMAIN nodes'
           /\ nodes'[i].opt_price = nodes[i].opt_price
           /\ nodes'[i].is_exerced = nodes[i].is_exerced

\* C29: Node.price() is memoized: once a node's opt_price is set no step
\* changes it or the node's is_exerced, and a later price() call on the node
\* returns the stored value without computing anything and without writing
\* to any node, whichever pricing method priced it first.
C29_Memoized == [][PricedKept /\ AllCacheHit']_vars

\* an American option priced by both methods in turn, the second on a lattice
\* of several columns in which a node was exercised early
C29_Witness ==
    /\ NoFailure /\ pc = "idle" /\ Len(result) = 2
    /\ {result[1].method, result[2].method} = {"recursive_pricing", "backward_pricing"}
    /\ result[1].kind = "value" /\ result[2].kind = "value"
    /\ params.nb_steps >= 2
    /\ \E i \in Lattice : nodes[i].next_mid # 0 /\ nodes[i].is_exerced
    /\ \E i \in DOMAIN nodes : i < tree.root /\ nodes[i].opt_price # NoneV

\* the years per step that the whole interval from the pricing date to the
\* maturity, fractions of a day included, gives
ExactDeltaT ==
    RoundDiv((option.maturity - params.pricing_date) * (SCALE \div 2000),
             params.nb_steps * 365 * (TicksPerDay \div 2000))

\* C30: delta_t = (maturity - pricing_date) / (nb_steps * 365) with the
\* elapsed time in days, so that nb_steps steps span exactly the interval
\* from the pricing date to the maturity and the last column is dated at the
\* maturity, for every pricing_date < maturity, whole days apart or not (the
\* grid of the model may round each step by half a tick).
C30_StepsSpanLife ==
    (Built /\ params.pricing_date < option.maturity)
    => /\ Abs(tree.delta_t - ExactDeltaT) <= 1
       /\ Abs(nodes[tree.last].date - option.maturity) <= params.nb_steps
       /\ Abs(params.nb_steps * TimeStep - (option.maturity - params.pricing_date))
              <= params.nb_steps

====
